---- MODULE Spec2Model ----
(***************************************************************************)
(* Model of ai-agents-hands-on/02-agent-structured-output.ipynb: a         *)
(* LangGraph agent that loops AGENT -> TOOLS -> AGENT and finishes in      *)
(* RESPOND with a WeatherResponse record, in two variants:                 *)
(*   option 1 ("Bind output as tool"): the schema is advertised as a tool  *)
(*            and the model is bound with tool_choice="any";               *)
(*   option 2 ("2 LLMs"): a second, schema-constrained model call builds   *)
(*            the record from messages[-2].                                *)
(* The chat model is an external service: every reply it can give within   *)
(* the bounds is a nondeterministic choice of the agent step.              *)
(* Spec explores every reply of the model on logs of up to MaxLog          *)
(* messages.  LiveSpec adds weak fairness of the graph's steps, against a  *)
(* model with fewer replies, on logs of up to LiveLog messages.            *)
(* PairSpec runs two invocations of the compiled graph with their steps    *)
(* interleaved, the calls of a tool step completing one by one in any      *)
(* order, against stubs that answer the same input the same way.           *)
(***************************************************************************)
EXTENDS Integers, Sequences, FiniteSets, TLC

\* ---------------------------------------------------------------- bounds
\* longest message log explored by Spec
MaxLog == 7
\* most tool calls the model puts in one Assistant message
MaxCalls == 2
\* longest message log explored by PairSpec, for each of its two invocations
PairLog == 5
\* longest message log explored by LiveSpec
LiveLog == 9

VARIABLES
    strategy,        \* 1 = option 1 cell (lines 96-169), 2 = option 2 cell (lines 231-291)
    honours,         \* option 1: the backend obeys tool_choice="any" on every turn
    live,            \* TRUE: the backend of LiveSpec, which has fewer replies
    messages,        \* AgentState["messages"]
    final_response,  \* AgentState["final_response"], Absent until respond sets it
    node,            \* the node the graph runs next: "agent", "tools", "respond", "END"
    error,           \* "none", or the error that aborted graph.invoke
    nextId,          \* the next unused tool-call id
    so_input,        \* what respond (option 2) handed to model_with_structured_output
    done,            \* PairSpec: the calls of the latest tool step that have completed
    stub,            \* PairSpec: what the two model stubs have answered so far
    parked           \* PairSpec: the state of the other invocation of the graph

vars == <<strategy, honours, live, messages, final_response, node, error,
          nextId, so_input, done, stub, parked>>

\* ------------------------------------------------------- values and schema
\* A JSON value of a tool call's arguments, tagged with its type. A float is a
\* double, written s as Python's repr writes it, which names a double uniquely:
\* 8.05 is Dec(8, "05"), 65.0 is Flt(65), and there are "inf", "-inf", "nan",
\* "-0.0" and "1e+16". An int is a whole number n of at most 31 bits.
Float(repr) == [t |-> "float", n |-> 0, s |-> repr]
Flt(n) == Float(ToString(n) \o ".0")
Dec(n, frac) == Float(ToString(n) \o "." \o frac)
IntV(n) == [t |-> "int", n |-> n, s |-> ""]
Str(x) == [t |-> "str", n |-> 0, s |-> x]

\* With(v, F) is F(v), with v computed once however often F uses it.
With(v, F(_)) == CHOOSE r \in {F(w) : w \in {v}} : TRUE

\* ---- the characters of a str
DigitValue ==
    ("0" :> 0) @@ ("1" :> 1) @@ ("2" :> 2) @@ ("3" :> 3) @@ ("4" :> 4)
        @@ ("5" :> 5) @@ ("6" :> 6) @@ ("7" :> 7) @@ ("8" :> 8) @@ ("9" :> 9)

LowerOf ==
    ("A" :> "a") @@ ("B" :> "b") @@ ("C" :> "c") @@ ("D" :> "d") @@ ("E" :> "e")
        @@ ("F" :> "f") @@ ("G" :> "g") @@ ("H" :> "h") @@ ("I" :> "i")
        @@ ("J" :> "j") @@ ("K" :> "k") @@ ("L" :> "l") @@ ("M" :> "m")
        @@ ("N" :> "n") @@ ("O" :> "o") @@ ("P" :> "p") @@ ("Q" :> "q")
        @@ ("R" :> "r") @@ ("S" :> "s") @@ ("T" :> "t") @@ ("U" :> "u")
        @@ ("V" :> "v") @@ ("W" :> "w") @@ ("X" :> "x") @@ ("Y" :> "y")
        @@ ("Z" :> "z")

\* The white space str.trim() strips, as far as a str of the model can hold it (a
\* str of the model is made of the characters up to U+00FF): tab, line feed,
\* vertical tab (U+000B), form feed, carriage return, space, next line (U+0085)
\* and no-break space (U+00A0).
WhiteSpace == {"\t", "\n", "", "\f", "\r", " ", "", " "}

CharAt(x, i) == SubSeq(x, i, i)

IsDigit(c) == c \in DOMAIN DigitValue

LowerCase(c) == IF c \in DOMAIN LowerOf THEN LowerOf[c] ELSE c

\* x is the word w, whatever the case of its letters (w is in lower case).
IsWord(x, w) ==
    /\ Len(x) = Len(w)
    /\ \A i \in 1..Len(w) : LowerCase(CharAt(x, i)) = CharAt(w, i)

\* The first position in i..j that is marked, 0 when there is none.
RECURSIVE FirstIn(_, _, _)
FirstIn(mark, i, j) ==
    IF i > j THEN 0
    ELSE IF i = j THEN (IF mark[i] THEN i ELSE 0)
    ELSE With(FirstIn(mark, i, (i + j) \div 2), LAMBDA k :
            IF k # 0 THEN k ELSE FirstIn(mark, (i + j) \div 2 + 1, j))

\* The last position in i..j that is marked, 0 when there is none.
RECURSIVE LastIn(_, _, _)
LastIn(mark, i, j) ==
    IF i > j THEN 0
    ELSE IF i = j THEN (IF mark[i] THEN i ELSE 0)
    ELSE With(LastIn(mark, (i + j) \div 2 + 1, j), LAMBDA k :
            IF k # 0 THEN k ELSE LastIn(mark, i, (i + j) \div 2))

\* str.trim(): the text without the white space around it.
Trim(x) ==
    With([i \in 1..Len(x) |-> CharAt(x, i) \notin WhiteSpace], LAMBDA inked :
    With(FirstIn(inked, 1, Len(x)), LAMBDA a :
        IF a = 0 THEN "" ELSE SubSeq(x, a, LastIn(inked, a, Len(x)))))

\* strip_underscores: "_" between other characters is dropped; a text that
\* starts or ends with "_" or holds "__" is left to fail.
HasUnderscores(x) == \E i \in 1..Len(x) : CharAt(x, i) = "_"

StripsUnderscores(x) ==
    /\ HasUnderscores(x)
    /\ CharAt(x, 1) # "_"
    /\ CharAt(x, Len(x)) # "_"
    /\ \A i \in 1..(Len(x) - 1) : ~(CharAt(x, i) = "_" /\ CharAt(x, i + 1) = "_")

\* the characters i..j of x that are not "_"
RECURSIVE WithoutUnderscoresIn(_, _, _)
WithoutUnderscoresIn(x, i, j) ==
    IF i > j THEN ""
    ELSE IF i = j THEN (IF CharAt(x, i) = "_" THEN "" ELSE CharAt(x, i))
    ELSE With((i + j) \div 2,
              LAMBDA m : WithoutUnderscoresIn(x, i, m)
                            \o WithoutUnderscoresIn(x, m + 1, j))

WithoutUnderscores(x) == WithoutUnderscoresIn(x, 1, Len(x))

\* ---- decimal numerals as sequences of digits, most significant first
ToDigits(x) == [i \in 1..Len(x) |-> DigitValue[CharAt(x, i)]]

\* the digits i..j of ds, written out
RECURSIVE TextIn(_, _, _)
TextIn(ds, i, j) ==
    IF i > j THEN ""
    ELSE IF i = j THEN ToString(ds[i])
    ELSE With((i + j) \div 2,
              LAMBDA m : TextIn(ds, i, m) \o TextIn(ds, m + 1, j))

Text(ds) == With(ds, LAMBDA v : TextIn(v, 1, Len(v)))

Zeros(n) == [i \in 1..n |-> 0]

\* ds without the zeros in front
StripLeft(ds) ==
    With(ds, LAMBDA v :
    With(FirstIn([i \in 1..Len(v) |-> v[i] # 0], 1, Len(v)), LAMBDA a :
        IF a = 0 THEN <<>> ELSE SubSeq(v, a, Len(v))))

\* ds without the zeros at the end
StripRight(ds) ==
    With(ds, LAMBDA v :
    With(LastIn([i \in 1..Len(v) |-> v[i] # 0], 1, Len(v)), LAMBDA b :
        IF b = 0 THEN <<>> ELSE SubSeq(v, 1, b)))

\* The exponent as str::parse::<f64>() reads its digits e (zeros in front left out),
\* one after the other from position i on, v being the value read so far: a
\* digit is added only while the value read is below 65536 (0x10000), so
\* "700000" is read as 70000. After six digits no digit is added any more.
RECURSIVE ExponentIn(_, _, _)
ExponentIn(e, i, v) ==
    IF i > Len(e) \/ i > 6 THEN v
    ELSE ExponentIn(e, i + 1, IF v < 65536 THEN 10 * v + e[i] ELSE v)

\* The power of ten of the first digit of a number: the exponent read from the
\* digits e (taken below zero when eneg) plus b, the power of ten the digits
\* before it give. All that is 310 or more counts as 310, which is beyond every
\* double, and all that is -326 or less as -326, which is below every double
\* but 0.
Magnitude(eneg, e, b) ==
    LET v == ExponentIn(StripLeft(e), 1, 0)
        m == (IF eneg THEN 0 - v ELSE v) + b
    IN IF m >= 310 THEN 310
       ELSE IF m <= 0 - 326 THEN 0 - 326
       ELSE m

\* The last position of the run of digits that starts at position i of x
\* (i - 1 when there is no digit at i).
DigitRun(x, i) ==
    With(FirstIn([j \in 1..Len(x) |-> ~IsDigit(CharAt(x, j))], i, Len(x)), LAMBDA j :
        IF j = 0 THEN Len(x) ELSE j - 1)

\* str::parse::<f64>(): Sign? ('inf' | 'infinity' | 'nan' | Number), whatever
\* the case of the letters, with
\*   Number ::= (Digit+ | Digit+ '.' Digit* | Digit* '.' Digit+) ('e' Sign? Digit+)?
\* A number is read as neg, the digits ds without the zeros around them, and the
\* power q of ten they are multiplied by (for a number beyond the doubles, the
\* power that Magnitude puts in its place).
ReadNumber(x) ==
    LET signed == Len(x) >= 1 /\ CharAt(x, 1) \in {"+", "-"}
        neg == signed /\ CharAt(x, 1) = "-"
        a == IF signed THEN 2 ELSE 1
        word == SubSeq(x, a, Len(x))
        bad == [kind |-> "bad", neg |-> FALSE, ds |-> <<>>, q |-> 0]
    IN
    IF IsWord(word, "inf") \/ IsWord(word, "infinity")
    THEN [kind |-> "inf", neg |-> neg, ds |-> <<>>, q |-> 0]
    ELSE IF IsWord(word, "nan")
    THEN [kind |-> "nan", neg |-> neg, ds |-> <<>>, q |-> 0]
    ELSE
    With(DigitRun(x, a), LAMBDA b :
    LET hasDot == b < Len(x) /\ CharAt(x, b + 1) = "." IN
    With(IF hasDot THEN DigitRun(x, b + 2) ELSE b, LAMBDA c :
    LET whole == SubSeq(x, a, b)
        frac == IF hasDot THEN SubSeq(x, b + 2, c) ELSE ""
        hasExp == c < Len(x) /\ CharAt(x, c + 1) \in {"e", "E"}
        esigned == hasExp /\ c + 1 < Len(x) /\ CharAt(x, c + 2) \in {"+", "-"}
        eneg == esigned /\ CharAt(x, c + 2) = "-"
        d == IF esigned THEN c + 3 ELSE c + 2
    IN
    With(IF hasExp THEN DigitRun(x, d) ELSE c, LAMBDA e :
    IF ~(/\ Len(whole) + Len(frac) >= 1
         /\ hasExp => e >= d
         /\ e = Len(x))
    THEN bad
    ELSE
    With(ToDigits(whole \o frac), LAMBDA all :
    With(StripRight(all), LAMBDA cut :
    With(StripLeft(cut), LAMBDA ds :
    With(IF hasExp THEN StripLeft(ToDigits(SubSeq(x, d, e))) ELSE <<>>, LAMBDA exp :
        [kind |-> "num", neg |-> neg, ds |-> ds,
         q |-> IF ds = <<>> THEN 0
               ELSE Magnitude(eneg, exp,
                              Len(ds) - 1 - Len(frac) + Len(all) - Len(cut))
                        - (Len(ds) - 1)])))))))

\* str_as_float: the trimmed text is parsed; when that fails, the text without
\* its underscores is.
ReadFloat(x) ==
    With(Trim(x), LAMBDA t :
    With(ReadNumber(t), LAMBDA r :
        IF r.kind # "bad" THEN r
        ELSE IF StripsUnderscores(x) THEN With(WithoutUnderscores(x), ReadNumber)
        ELSE r))

IsNumeral(x) == ReadFloat(x).kind # "bad"

\* ---- the double nearest to a decimal
\* A positive decimal: the digits before and after the point, no zero in front,
\* none at the end.
Double(y) ==
    With(y.int \o y.frac, LAMBDA c :
    LET L == Len(c)
        ni == Len(y.int) + 1
        r == [j \in 1..(L + 1) |->
                (IF j = 1 THEN 0 ELSE (2 * c[j - 1]) % 10)
                    + (IF j <= L /\ c[j] >= 5 THEN 1 ELSE 0)]
    IN [int |-> SubSeq(r, IF r[1] = 0 THEN 2 ELSE 1, ni),
        frac |-> SubSeq(r, ni + 1,
                        IF Len(y.frac) > 0 /\ r[L + 1] = 0 THEN L ELSE L + 1)])

Halve(y) ==
    With(y.int \o y.frac, LAMBDA c :
    LET L == Len(c)
        ni == Len(y.int)
        r == [j \in 1..(L + 1) |->
                (IF j <= L THEN c[j] \div 2 ELSE 0)
                    + (IF j >= 2 /\ c[j - 1] % 2 = 1 THEN 5 ELSE 0)]
    IN [int |-> SubSeq(r, IF ni > 0 /\ r[1] = 0 THEN 2 ELSE 1, ni),
        frac |-> SubSeq(r, ni + 1, IF r[L + 1] = 0 THEN L ELSE L + 1)])

\* a < b for whole numbers
Less(a, b) ==
    \/ Len(a) < Len(b)
    \/ /\ Len(a) = Len(b)
       /\ \E i \in 1..Len(a) : a[i] < b[i] /\ \A j \in 1..(i - 1) : a[j] = b[j]

TwoTo52 == <<4, 5, 0, 3, 5, 9, 9, 6, 2, 7, 3, 7, 0, 4, 9, 6>>
TwoTo53 == <<9, 0, 0, 7, 1, 9, 9, 2, 5, 4, 7, 4, 0, 9, 9, 2>>
MinExp == 0 - 1074
MaxExp == 971

\* y * 2^e, for any whole e (half of the way is computed, then the rest)
RECURSIVE Times2To(_, _)
Times2To(y, e) ==
    IF e = 0 THEN y
    ELSE IF e = 1 THEN Double(y)
    ELSE IF e = 0 - 1 THEN Halve(y)
    ELSE With(Times2To(y, e \div 2), LAMBDA z : Times2To(z, e - e \div 2))

\* The power of ten of the first digit of y that is not 0.
Order(y) ==
    IF Len(y.int) > 0 THEN Len(y.int) - 1
    ELSE Len(StripLeft(y.frac)) - Len(y.frac) - 1

\* y * 2^e = z * 2^f with z in [2^52, 2^53), or f = MinExp and z below 2^52.
RECURSIVE Scale(_, _)
Scale(y, e) ==
    IF ~Less(y.int, TwoTo53)
    THEN With(Halve(y), LAMBDA z : Scale(z, e + 1))
    ELSE IF Less(y.int, TwoTo52) /\ e > MinExp
    THEN With(Double(y), LAMBDA z : Scale(z, e - 1))
    ELSE [y |-> y, e |-> e]

\* The same, most of the way in one go: 2^k <= 10^d for k = (33219 * d) \div 10000.
Normalize(y) ==
    LET o == Order(y)
        far == ((15 - o) * 33219) \div 10000
        k == IF o > 16 THEN 0 - (((o - 16) * 33219) \div 10000)
             ELSE IF o < 15 THEN (IF far > 0 - MinExp THEN 0 - MinExp ELSE far)
             ELSE 0
    IN With(Times2To(y, k), LAMBDA z : Scale(z, 0 - k))

Inc(ds) ==
    IF \A i \in 1..Len(ds) : ds[i] = 9 THEN <<1>> \o Zeros(Len(ds))
    ELSE LET k == CHOOSE i \in 1..Len(ds) :
                    ds[i] # 9 /\ \A j \in (i + 1)..Len(ds) : ds[j] = 9
         IN [i \in 1..Len(ds) |->
                IF i < k THEN ds[i] ELSE IF i = k THEN ds[k] + 1 ELSE 0]

\* The whole number nearest to y, the even one of two that are as near.
RoundHalfEven(y) ==
    LET f == y.frac
        odd == Len(y.int) > 0 /\ y.int[Len(y.int)] % 2 = 1
    IN IF Len(f) >= 1 /\ (f[1] > 5 \/ (f[1] = 5 /\ (Len(f) >= 2 \/ odd)))
       THEN Inc(y.int)
       ELSE y.int

Decimal(ds, q) ==
    IF q >= 0 THEN [int |-> ds \o Zeros(q), frac |-> <<>>]
    ELSE IF 0 - q < Len(ds)
    THEN [int |-> SubSeq(ds, 1, Len(ds) + q),
          frac |-> SubSeq(ds, Len(ds) + q + 1, Len(ds))]
    ELSE [int |-> <<>>, frac |-> Zeros(0 - q - Len(ds)) \o ds]

\* The double m * 2^e nearest to ds * 10^q (ds # <<>>), "inf" when it is beyond
\* the largest one, "zero" when it is nearer to 0 than to the smallest one.
ToDouble(ds, q) ==
    LET e10 == Len(ds) - 1 + q IN
    IF e10 >= 310 THEN [kind |-> "inf", m |-> <<>>, e |-> 0]
    ELSE IF e10 <= 0 - 326 THEN [kind |-> "zero", m |-> <<>>, e |-> 0]
    ELSE With(Normalize(Decimal(ds, q)), LAMBDA s :
         LET m == RoundHalfEven(s.y)
             over == m = TwoTo53
             e == IF over THEN s.e + 1 ELSE s.e
         IN IF e > MaxExp THEN [kind |-> "inf", m |-> <<>>, e |-> 0]
            ELSE IF m = <<>> THEN [kind |-> "zero", m |-> <<>>, e |-> 0]
            ELSE [kind |-> "num", m |-> IF over THEN TwoTo52 ELSE m, e |-> e])

\* ---- repr of a double: the shortest decimal that reads back as it
\* The digits ds of a decimal and the power of ten e10 of the first of them.
Significant(y) ==
    With(y, LAMBDA z :
    With(StripLeft(z.int \o z.frac), LAMBDA cut :
        [ds |-> StripRight(cut), e10 |-> Order(z)]))

ReadsBack(ds, e10, dbl) ==
    LET sig == StripRight(ds) IN ToDouble(sig, e10 - (Len(sig) - 1)) = dbl

\* The decimal of k digits next to x that reads back as dbl and is nearer to
\* x than the other one that does, if there is any.
OfDigits(x, dbl, k) ==
    LET lo == SubSeq(x.ds, 1, k)
        up == Inc(lo)
        carried == Len(up) > k
        hi == IF carried THEN <<1>> ELSE up
        hi10 == IF carried THEN x.e10 + 1 ELSE x.e10
        next == x.ds[k + 1]
        nearerHi == \/ next > 5
                    \/ next = 5 /\ (Len(x.ds) > k + 1 \/ lo[k] % 2 = 1)
        low == [any |-> TRUE, ds |-> StripRight(lo), e10 |-> x.e10]
        high == [any |-> TRUE, ds |-> StripRight(hi), e10 |-> hi10]
    IN IF ReadsBack(lo, x.e10, dbl)
       THEN (IF nearerHi /\ ReadsBack(hi, hi10, dbl) THEN high ELSE low)
       ELSE IF ReadsBack(hi, hi10, dbl) THEN high
       ELSE [any |-> FALSE, ds |-> <<>>, e10 |-> 0]

\* The least k in lo..hi for which there is such a decimal: there is one of hi
\* digits, and one of k + 1 digits whenever there is one of k.
RECURSIVE FewestDigits(_, _, _, _)
FewestDigits(x, dbl, lo, hi) ==
    IF lo >= hi THEN hi
    ELSE IF OfDigits(x, dbl, (lo + hi) \div 2).any
    THEN FewestDigits(x, dbl, lo, (lo + hi) \div 2)
    ELSE FewestDigits(x, dbl, (lo + hi) \div 2 + 1, hi)

\* The shortest decimal that reads back as the double dbl whose value is x; 17
\* digits are enough for any double.
Shortest(x, dbl) ==
    With(FewestDigits(x, dbl, 1, IF Len(x.ds) < 17 THEN Len(x.ds) ELSE 17), LAMBDA k :
        IF k >= Len(x.ds) THEN x
        ELSE With(OfDigits(x, dbl, k), LAMBDA d : [ds |-> d.ds, e10 |-> d.e10]))

\* repr of the float with the digits ds, the first of them worth 10^e10:
\* "8.05", "1000000000000000.0", "1e+16", "0.0001", "1e-05".
Pad2(n) == IF n < 10 THEN "0" \o ToString(n) ELSE ToString(n)

FormatRepr(neg, ds, e10) ==
    LET k == Len(ds)
        body ==
            IF e10 >= 16 \/ e10 < 0 - 4
            THEN Text(SubSeq(ds, 1, 1))
                    \o (IF k > 1 THEN "." \o Text(SubSeq(ds, 2, k)) ELSE "")
                    \o (IF e10 < 0 THEN "e-" \o Pad2(0 - e10) ELSE "e+" \o Pad2(e10))
            ELSE IF e10 < 0
            THEN "0." \o Text(Zeros(0 - e10 - 1) \o ds)
            ELSE IF k > e10 + 1
            THEN Text(SubSeq(ds, 1, e10 + 1)) \o "." \o Text(SubSeq(ds, e10 + 2, k))
            ELSE Text(ds \o Zeros(e10 + 1 - k)) \o ".0"
    IN (IF neg THEN "-" ELSE "") \o body

\* A decimal of at most 15 digits within the range of the normal doubles is the
\* repr of the double it reads as; any other is rounded to its double first.
ReprOfDecimal(neg, ds, q) ==
    LET e10 == Len(ds) - 1 + q
        sign == IF neg THEN "-" ELSE ""
    IN IF ds = <<>> THEN sign \o "0.0"
       ELSE IF Len(ds) <= 15 /\ e10 >= 0 - 300 /\ e10 <= 300
       THEN FormatRepr(neg, ds, e10)
       ELSE With(ToDouble(ds, q), LAMBDA dbl :
            IF dbl.kind = "inf" THEN sign \o "inf"
            ELSE IF dbl.kind = "zero" THEN sign \o "0.0"
            ELSE With(Significant(Times2To([int |-> dbl.m, frac |-> <<>>], dbl.e)),
                      LAMBDA all :
                 With(Shortest(all, dbl), LAMBDA x : FormatRepr(neg, x.ds, x.e10))))

\* The float a str is read as: float("8.05") = 8.05, float(" 65") = 65.0.
ParseFloat(x) ==
    With(ReadFloat(x), LAMBDA r :
        IF r.kind = "nan" THEN Float("nan")
        ELSE IF r.kind = "inf" THEN Float((IF r.neg THEN "-" ELSE "") \o "inf")
        ELSE Float(ReprOfDecimal(r.neg, r.ds, r.q)))

\* class WeatherResponse(BaseModel): the three required fields.
Fields == {"temperature", "wind_directon", "wind_speed"}

FieldType(f) == IF f = "wind_directon" THEN "str" ELSE "float"

\* pydantic's field validation (the class sets no strict mode): a float field
\* takes a float (nan and the infinities too), an int, or a str that reads as a
\* number; a str field takes a str only.
Coercible(v, ty) ==
    IF ty = "float"
    THEN v.t \in {"float", "int"} \/ (v.t = "str" /\ IsNumeral(v.s))
    ELSE v.t = "str"

\* What the field holds: an int given to a float field becomes the float of the
\* same value, a str given to it the float it reads as; a float for a float
\* field and a str for a str field are kept as they are.
Coerce(v, ty) ==
    IF ty = "float" /\ v.t = "int" THEN Flt(v.n)
    ELSE IF ty = "float" /\ v.t = "str" /\ IsNumeral(v.s) THEN ParseFloat(v.s)
    ELSE v

\* Variant: validation that only looks for the keys and checks no type.
WeatherResponseValid_keys_only(args) ==
    Fields \subseteq DOMAIN args

\* WeatherResponse(**args) raises ValidationError unless every field is there
\* with a value of its type; keys that are no field are ignored (the class
\* sets no extra="forbid").
WeatherResponseValid(args) ==
    /\ Fields \subseteq DOMAIN args
    /\ \A f \in Fields : Coercible(args[f], FieldType(f))

\* The record WeatherResponse(**args) builds when the arguments are valid.
WeatherResponse(args) ==
    [f \in Fields |-> Coerce(args[f], FieldType(f))]

\* final_response before respond has run: the key is not in the state.
Absent == [absent |-> TRUE]

IsRecord(r) ==
    /\ DOMAIN r = Fields
    /\ \A f \in Fields : r[f].t = FieldType(f)

\* str() of a record, the text a ToolMessage carries when the schema is run as a tool.
Repr(r) ==
    "temperature=" \o r["temperature"].s
        \o " wind_directon='" \o r["wind_directon"].s
        \o "' wind_speed=" \o r["wind_speed"].s

\* ------------------------------------------------------------------ tools
SchemaTool == "WeatherResponse"

SupportedCities == {"paris", "lille", "marseille"}

\* get_weather's declared parameters: city: Literal["paris", "lille", "marseille"].
get_weather_args_ok(args) ==
    /\ "city" \in DOMAIN args
    /\ args.city \in SupportedCities

\* Variant: the annotation is plain str, so any city reaches the body.
get_weather_args_ok_any_city(args) ==
    "city" \in DOMAIN args

\* The body of get_weather; "AssertionError" stands for the raise of the else branch.
get_weather(city) ==
    IF city = "paris"
    THEN "It is cloudy in Paris, with 5 mph winds in the North-East direction and a temperature of 70 degrees"
    ELSE IF city = "lille"
    THEN "It is 65 degrees and raining in Lille, with 3 mph winds in the South-East direction"
    ELSE IF city = "marseille"
    THEN "It is 75 degrees and sunny in Marseille, with 3 mph winds in the South-East direction"
    ELSE "AssertionError"

\* tools as bound to the tool-calling model of each option.
Advertised(s) ==
    IF s = 1 THEN {"get_weather", SchemaTool} ELSE {"get_weather"}

\* Variant: the tool node is built from the first cell's list, [get_weather].
Registry_first_cell(s) == {"get_weather"}

\* tools as given to ToolNode(tools): the notebook's cells run top to bottom, so
\* both graphs are built after line 99 rebinds the global.
Registry(s) == {"get_weather", SchemaTool}

\* ------------------------------------------------------------- messages
HumanMessage(text) == [type |-> "human", content |-> text]

AIMessage(text, calls) == [type |-> "ai", content |-> text, tool_calls |-> calls]

ToolMessage(text, id) == [type |-> "tool", content |-> text, tool_call_id |-> id]

Last(msgs) == msgs[Len(msgs)]

\* The tool calls of a message; a message that is no AIMessage has none.
ToolCalls(m) == IF m.type = "ai" THEN m.tool_calls ELSE <<>>

\* ------------------------------------------------- a second invocation
\* Spec and LiveSpec run one invocation of the graph.
NoPeer == [inv |-> 0]

Concurrent == parked # NoPeer

\* The state of the invocation whose step is due, as graph.invoke holds it.
Running ==
    [inv |-> 3 - parked.inv, messages |-> messages,
     final_response |-> final_response, node |-> node, error |-> error,
     nextId |-> nextId, so_input |-> so_input, done |-> done]

\* -------------------------------------------------- what the backend may say
Seeds == {"what's the weather in Lille?", "what's the weather in Paris?"}

ValidArgs ==
    [temperature |-> Flt(65), wind_directon |-> Str("N"), wind_speed |-> Flt(15)]

\* Arguments that need conversions: numeric strs for the float fields, one of
\* them with a blank in front and an exponent.
LaxArgs ==
    [temperature |-> Str(" 7e1"), wind_directon |-> Str("NE"),
     wind_speed |-> Str("8.05")]

MissingArgs ==
    [temperature |-> Flt(65), wind_directon |-> Str("N")]

WrongTypeArgs ==
    [temperature |-> Str("warm"), wind_directon |-> Str("N"), wind_speed |-> Flt(15)]

\* An int for a float field, and a key that is no field.
ExtraArgs ==
    [temperature |-> IntV(75), wind_directon |-> Str("SE"), wind_speed |-> Flt(3),
     humidity |-> Flt(40)]

\* Numeric strs once more: white space other than blanks around the number
\* (a no-break space and a vertical tab in front, a next line behind), and an
\* exponent of seven digits.
WideArgs ==
    [temperature |-> Str(" 65"), wind_directon |-> Str("S"),
     wind_speed |-> Str("1e1000000")]

SchemaArgs == {ValidArgs, LaxArgs, WideArgs, MissingArgs, WrongTypeArgs, ExtraArgs}

Call(name, args) == [name |-> name, args |-> args]

\* The requests a reply is made of: get_weather for a supported or an unsupported
\* city, the schema tool with good or bad arguments, a tool nobody declared.
Requests ==
    {Call("get_weather", [city |-> c]) : c \in SupportedCities \cup {"lyon"}}
    \cup {Call(SchemaTool, a) : a \in SchemaArgs}
    \cup {Call("get_time", [zone |-> "cet"])}

LiveRequests ==
    {Call("get_weather", [city |-> c]) : c \in {"paris", "lille", "lyon"}}
    \cup {Call(SchemaTool, a) : a \in {ValidArgs, MissingArgs}}
    \cup {Call("get_time", [zone |-> "cet"])}

\* LiveSpec: no call, one call, or the schema tool next to another call.
LiveReplies ==
    {<<>>} \cup {<<r>> : r \in LiveRequests}
        \cup {<<Call(SchemaTool, ValidArgs), Call("get_weather", [city |-> "lyon"])>>}

\* PairSpec: two cities, so that a turn of two calls has two different results.
PairRequests ==
    {Call("get_weather", [city |-> c]) : c \in {"paris", "lille"}}
    \cup {Call(SchemaTool, ValidArgs)}

BackendRequests ==
    IF Concurrent THEN PairRequests ELSE Requests

SeqsUpTo(S, n) == UNION {[1..k -> S] : k \in 0..n}

\* The backend numbers the calls of a reply with unused ids.
WithIds(reqs, id) ==
    [i \in 1..Len(reqs) |->
        [id |-> id + i - 1, name |-> reqs[i].name, args |-> reqs[i].args]]

\* tool_choice="any": at least one call, of an advertised tool.
ObeysToolChoice(reqs) ==
    /\ Len(reqs) >= 1
    /\ \A i \in 1..Len(reqs) : reqs[i].name \in Advertised(1)

\* The replies the tool-calling model can give on this turn.
Replies ==
    IF live
    THEN {r \in LiveReplies :
            /\ (strategy = 1 /\ honours) => ObeysToolChoice(r)
            /\ Len(messages) + 1 + Len(r) <= LiveLog}
    ELSE {r \in SeqsUpTo(BackendRequests, MaxCalls) :
            /\ (strategy = 1 /\ honours) => ObeysToolChoice(r)
            /\ Len(messages) + 1 + Len(r) <=
                    (IF Concurrent THEN PairLog ELSE MaxLog)}

\* PairSpec: the two models are stubs that answer an input they have been given
\* before as they answered it then. stub.model holds the inputs of the
\* tool-calling model with its replies, stub.so those of the schema-constrained
\* model with what it produced. One invocation gives no input twice (its log
\* grows), so nothing is kept for Spec and LiveSpec.
NoAnswers == [model |-> {}, so |-> {}]

\* The reply that is no message: the backend call raised.
Raised == [type |-> "raised", content |-> "BackendError", tool_calls |-> <<>>]

\* model_with_tools.invoke(input) gives the reply.
Invoke(input, reply) ==
    /\ \A p \in stub.model : p.input = input => p.reply = reply
    /\ stub' = IF Concurrent
               THEN [stub EXCEPT !.model = @ \cup {[input |-> input, reply |-> reply]}]
               ELSE stub

\* model_with_structured_output.invoke([HumanMessage(content=content)]) gives out.
InvokeStructured(content, out) ==
    /\ \A p \in stub.so : p.input = content => p.out = out
    /\ stub' = IF Concurrent
               THEN [stub EXCEPT !.so = @ \cup {[input |-> content, out |-> out]}]
               ELSE stub

ReplyText(reqs) == IF Len(reqs) = 0 THEN "final answer" ELSE ""

\* ------------------------------------------------------------ the routers
\* Variant: the name is compared with a string no tool call carries.
should_continue_1_wrong_name(msgs) ==
    LET last_message == Last(msgs) IN
    IF /\ Len(last_message.tool_calls) = 1
       /\ last_message.tool_calls[1].name = "weather_response"
    THEN "respond"
    ELSE "continue"

\* Variant: the length test is dropped, only tool_calls[0] is looked at.
should_continue_1_first_only(msgs) ==
    LET last_message == Last(msgs) IN
    IF /\ Len(last_message.tool_calls) >= 1
       /\ last_message.tool_calls[1].name = SchemaTool
    THEN "respond"
    ELSE "continue"

\* Variant: a single tool call goes to respond whatever its name.
should_continue_1_any_single_call(msgs) ==
    LET last_message == Last(msgs) IN
    IF Len(last_message.tool_calls) = 1
    THEN "respond"
    ELSE "continue"

\* should_continue of option 1.
should_continue_1(msgs) ==
    LET last_message == Last(msgs) IN
    IF /\ Len(last_message.tool_calls) = 1
       /\ last_message.tool_calls[1].name = SchemaTool
    THEN "respond"
    ELSE "continue"

\* Variant: the test is inverted.
should_continue_2_inverted(msgs) ==
    LET last_message == Last(msgs) IN
    IF last_message.tool_calls # <<>>
    THEN "respond"
    ELSE "continue"

\* Variant: the router stops the loop once the log holds four messages.
should_continue_2_budget(msgs) ==
    LET last_message == Last(msgs) IN
    IF last_message.tool_calls = <<>> \/ Len(msgs) >= 4
    THEN "respond"
    ELSE "continue"

\* should_continue of option 2.
should_continue_2(msgs) ==
    LET last_message == Last(msgs) IN
    IF last_message.tool_calls = <<>>
    THEN "respond"
    ELSE "continue"

should_continue(msgs) ==
    IF strategy = 1 THEN should_continue_1(msgs) ELSE should_continue_2(msgs)

\* Variant: the two targets of the mapping are swapped.
ConditionalEdge_swapped(r) == IF r = "continue" THEN "respond" ELSE "tools"

\* add_conditional_edges("agent", should_continue, {...})
ConditionalEdge(r) == IF r = "continue" THEN "tools" ELSE "respond"

\* Variant: the edge out of the tool node leads to END.
ToolsEdge_to_end == "END"

\* add_edge("tools", "agent")
ToolsEdge == "agent"

\* Variant: the edge out of respond leads back to the agent node.
RespondEdge_to_agent == "agent"

\* add_edge("respond", END)
RespondEdge == "END"

\* ----------------------------------------------------------- the tool node
\* Variant: a call of a tool that is not registered is answered with an error
\* text instead of failing.
RunTool_unknown_answered(call) ==
    IF call.name \notin Registry(strategy)
    THEN [ok |-> TRUE, val |-> "not a valid tool"]
    ELSE IF call.name = "get_weather"
    THEN IF ~get_weather_args_ok(call.args)
         THEN [ok |-> FALSE, val |-> "ToolArgumentError"]
         ELSE IF get_weather(call.args.city) = "AssertionError"
              THEN [ok |-> FALSE, val |-> "ToolExecutionError"]
              ELSE [ok |-> TRUE, val |-> get_weather(call.args.city)]
    ELSE IF ~WeatherResponseValid(call.args)
         THEN [ok |-> FALSE, val |-> "ToolArgumentError"]
         ELSE [ok |-> TRUE, val |-> Repr(WeatherResponse(call.args))]

\* One requested call: the ToolMessage content it yields, or the error it raises.
RunTool(call) ==
    IF call.name \notin Registry(strategy)
    THEN [ok |-> FALSE, val |-> "UnknownToolError"]
    ELSE IF call.name = "get_weather"
    THEN IF ~get_weather_args_ok(call.args)
         THEN [ok |-> FALSE, val |-> "ToolArgumentError"]
         ELSE IF get_weather(call.args.city) = "AssertionError"
              THEN [ok |-> FALSE, val |-> "ToolExecutionError"]
              ELSE [ok |-> TRUE, val |-> get_weather(call.args.city)]
    ELSE IF ~WeatherResponseValid(call.args)
         THEN [ok |-> FALSE, val |-> "ToolArgumentError"]
         ELSE [ok |-> TRUE, val |-> Repr(WeatherResponse(call.args))]

\* The first call of the message that fails, 0 when none does.
FirstFailure(calls) ==
    IF \E i \in 1..Len(calls) : ~RunTool(calls[i]).ok
    THEN CHOOSE i \in 1..Len(calls) :
            /\ ~RunTool(calls[i]).ok
            /\ \A j \in 1..(i - 1) : RunTool(calls[j]).ok
    ELSE 0

\* The ToolMessages the node returns: one per call, in the order of the calls.
ToolResults(calls) ==
    [i \in 1..Len(calls) |-> ToolMessage(RunTool(calls[i]).val, calls[i].id)]

\* The orders in which the calls of one message can complete when the host runs
\* them concurrently: order[k] is the call that completes k-th.
Orders(n) ==
    {o \in [1..n -> 1..n] : \A i, j \in 1..n : o[i] = o[j] => i = j}

\* What the tool node holds of call i once it has completed: whether it failed,
\* and the ToolMessage it gave.
Outcome(calls, i) ==
    [call |-> i, ok |-> RunTool(calls[i]).ok,
     msg |-> ToolMessage(RunTool(calls[i]).val, calls[i].id)]

\* What the node holds when its calls have completed in the given order.
Completed(calls, order) ==
    [k \in 1..Len(calls) |-> Outcome(calls, order[k])]

\* Variant: the results are returned as the calls completed.
Collect_as_completed(completed) ==
    [k \in 1..Len(completed) |-> completed[k].msg]

\* Variant: the results are returned latest completion first.
Collect_latest_first(completed) ==
    [k \in 1..Len(completed) |-> completed[Len(completed) + 1 - k].msg]

\* Every call has completed: the results are returned in the order of the calls.
Collect(completed) ==
    [i \in 1..Len(completed) |->
        completed[CHOOSE k \in 1..Len(completed) : completed[k].call = i].msg]

\* ------------------------------------------------------------------ steps
Init ==
    /\ strategy \in {1, 2}
    /\ honours \in (IF strategy = 1 THEN BOOLEAN ELSE {FALSE})
    /\ live = FALSE
    /\ \E seed \in Seeds : messages = <<HumanMessage(seed)>>
    /\ final_response = Absent
    /\ node = "agent"
    /\ error = "none"
    /\ nextId = 1
    /\ so_input = ""
    /\ done = <<>>
    /\ stub = NoAnswers
    /\ parked = NoPeer

\* LiveSpec: the backend obeys tool_choice="any" where it is bound with it.
InitLive ==
    /\ strategy \in {1, 2}
    /\ honours = (strategy = 1)
    /\ live = TRUE
    /\ \E seed \in Seeds : messages = <<HumanMessage(seed)>>
    /\ final_response = Absent
    /\ node = "agent"
    /\ error = "none"
    /\ nextId = 1
    /\ so_input = ""
    /\ done = <<>>
    /\ stub = NoAnswers
    /\ parked = NoPeer

\* graph.invoke twice on the one compiled graph, each call with its own input:
\* the question of the demo cell and, for the other, the same or another one.
PairInit ==
    /\ strategy \in {1, 2}
    /\ honours = FALSE
    /\ live = FALSE
    /\ messages = <<HumanMessage("what's the weather in Lille?")>>
    /\ final_response = Absent
    /\ node = "agent"
    /\ error = "none"
    /\ nextId = 1
    /\ so_input = ""
    /\ done = <<>>
    /\ stub = NoAnswers
    /\ \E seed \in Seeds :
        parked = [inv |-> 2, messages |-> <<HumanMessage(seed)>>,
                  final_response |-> Absent, node |-> "agent", error |-> "none",
                  nextId |-> 1, so_input |-> "", done |-> <<>>]

\* Variant: call_model returns the whole log with the response, so the graph
\* appends the earlier messages a second time.
call_model_returns_log(reqs) ==
    LET response == AIMessage(ReplyText(reqs), WithIds(reqs, nextId))
        after == messages \o Append(messages, response)
    IN /\ Invoke(messages, response)
       /\ messages' = after
       /\ node' = ConditionalEdge(should_continue(after))
       /\ nextId' = nextId + Len(reqs)
       /\ UNCHANGED <<final_response, error, so_input, parked>>

\* Variant: the response is also appended to the log of the other invocation, as
\* with one message list shared by every invocation of the graph.
call_model_shared_log(reqs) ==
    LET response == AIMessage(ReplyText(reqs), WithIds(reqs, nextId))
        after == Append(messages, response)
    IN /\ Invoke(messages, response)
       /\ messages' = after
       /\ node' = ConditionalEdge(should_continue(after))
       /\ nextId' = nextId + Len(reqs)
       /\ parked' = IF Concurrent
                    THEN [parked EXCEPT !.messages = Append(@, response)]
                    ELSE parked
       /\ UNCHANGED <<final_response, error, so_input>>

\* call_model: invoke the bound model on the log, return {"messages": [response]};
\* the graph appends it and follows the conditional edge.
call_model(reqs) ==
    LET response == AIMessage(ReplyText(reqs), WithIds(reqs, nextId))
        after == Append(messages, response)
    IN /\ Invoke(messages, response)
       /\ messages' = after
       /\ node' = ConditionalEdge(should_continue(after))
       /\ nextId' = nextId + Len(reqs)
       /\ UNCHANGED <<final_response, error, so_input, parked>>

Agent ==
    /\ node = "agent"
    /\ error = "none"
    /\ \E reqs \in Replies : call_model(reqs)
    /\ done' = IF node' = "tools" THEN <<>> ELSE done
    /\ UNCHANGED <<strategy, honours, live>>

\* The backend call raises: nothing catches it, graph.invoke raises.
AgentFails ==
    /\ node = "agent"
    /\ error = "none"
    /\ Invoke(messages, Raised)
    /\ error' = "BackendError"
    /\ UNCHANGED <<strategy, honours, live, messages, final_response, node,
                   nextId, so_input, done, parked>>

\* Variant: a failing call is answered with a ToolMessage that carries the error,
\* and the loop goes on.
ToolNode_errors_fed_back(calls, completed) ==
    /\ messages' = messages \o ToolResults(calls)
    /\ node' = ToolsEdge
    /\ UNCHANGED error

\* ToolNode(tools) on the calls of the last message, all of them completed, then
\* the edge tools -> agent.
ToolNode(calls, completed) ==
    LET k == FirstFailure(calls) IN
    IF k = 0
    THEN /\ messages' = messages \o Collect(completed)
         /\ node' = ToolsEdge
         /\ UNCHANGED error
    ELSE /\ error' = RunTool(calls[k]).val
         /\ UNCHANGED <<messages, node>>

\* The tool step as a whole: the calls complete in some order, the node returns.
Tools ==
    /\ node = "tools"
    /\ error = "none"
    /\ LET calls == ToolCalls(Last(messages)) IN
       \E order \in Orders(Len(calls)) : ToolNode(calls, Completed(calls, order))
    /\ UNCHANGED <<strategy, honours, live, final_response, nextId, so_input,
                   done, stub, parked>>

\* PairSpec takes the tool step apart. One more call of the message completes.
ToolCompletes ==
    /\ node = "tools"
    /\ error = "none"
    /\ LET calls == ToolCalls(Last(messages)) IN
       \E i \in 1..Len(calls) :
            /\ \A k \in 1..Len(done) : done[k].call # i
            /\ done' = Append(done, Outcome(calls, i))
    /\ UNCHANGED <<strategy, honours, live, messages, final_response, node, error,
                   nextId, so_input, stub, parked>>

\* Every call of the message has completed: the node returns.
ToolsReturn ==
    /\ node = "tools"
    /\ error = "none"
    /\ Len(done) = Len(ToolCalls(Last(messages)))
    /\ ToolNode(ToolCalls(Last(messages)), done)
    /\ UNCHANGED <<strategy, honours, live, final_response, nextId, so_input,
                   done, stub, parked>>

\* Variant: respond returns the record without the tool message.
respond_1_no_tool_message ==
    LET weather_tool_call == Last(messages).tool_calls[1] IN
    IF WeatherResponseValid(weather_tool_call.args)
    THEN /\ final_response' = WeatherResponse(weather_tool_call.args)
         /\ node' = RespondEdge
         /\ UNCHANGED <<messages, error, so_input>>
    ELSE /\ error' = "StructuredOutputError"
         /\ UNCHANGED <<final_response, messages, node, so_input>>

\* Variant: respond returns the tool message without the record.
respond_1_no_final_response ==
    LET weather_tool_call == Last(messages).tool_calls[1] IN
    IF WeatherResponseValid(weather_tool_call.args)
    THEN /\ messages' = Append(messages,
                ToolMessage("Here is your structured response", weather_tool_call.id))
         /\ node' = RespondEdge
         /\ UNCHANGED <<final_response, error, so_input>>
    ELSE /\ error' = "StructuredOutputError"
         /\ UNCHANGED <<final_response, messages, node, so_input>>

\* Variant: the tool message takes the place of the message it answers.
respond_1_overwrites_last ==
    LET weather_tool_call == Last(messages).tool_calls[1] IN
    IF WeatherResponseValid(weather_tool_call.args)
    THEN /\ final_response' = WeatherResponse(weather_tool_call.args)
         /\ messages' = [messages EXCEPT ![Len(messages)] =
                ToolMessage("Here is your structured response", weather_tool_call.id)]
         /\ node' = RespondEdge
         /\ UNCHANGED <<error, so_input>>
    ELSE /\ error' = "StructuredOutputError"
         /\ UNCHANGED <<final_response, messages, node, so_input>>

\* Variant: the tool message names no call of the log.
respond_1_unbound_id ==
    LET weather_tool_call == Last(messages).tool_calls[1] IN
    IF WeatherResponseValid(weather_tool_call.args)
    THEN /\ final_response' = WeatherResponse(weather_tool_call.args)
         /\ messages' = Append(messages,
                ToolMessage("Here is your structured response", 0))
         /\ node' = RespondEdge
         /\ UNCHANGED <<error, so_input>>
    ELSE /\ error' = "StructuredOutputError"
         /\ UNCHANGED <<final_response, messages, node, so_input>>

\* respond of option 1, then the edge respond -> END.
respond_1 ==
    LET weather_tool_call == Last(messages).tool_calls[1] IN
    IF WeatherResponseValid(weather_tool_call.args)
    THEN /\ final_response' = WeatherResponse(weather_tool_call.args)
         /\ messages' = Append(messages,
                ToolMessage("Here is your structured response", weather_tool_call.id))
         /\ node' = RespondEdge
         /\ UNCHANGED <<error, so_input>>
    ELSE /\ error' = "StructuredOutputError"
         /\ UNCHANGED <<final_response, messages, node, so_input>>

\* Variant: respond also returns the HumanMessage it built, which the graph
\* appends to the log.
respond_2_appends_input(out) ==
    LET content == messages[Len(messages) - 1].content IN
    /\ InvokeStructured(content, out)
    /\ so_input' = content
    /\ IF WeatherResponseValid(out)
       THEN /\ final_response' = WeatherResponse(out)
            /\ node' = RespondEdge
            /\ messages' = Append(messages, HumanMessage(content))
            /\ UNCHANGED error
       ELSE /\ error' = "StructuredOutputError"
            /\ UNCHANGED <<final_response, node, messages>>

\* respond of option 2, then the edge respond -> END; out is what the
\* schema-constrained model produced for the one HumanMessage it was given.
respond_2(out) ==
    LET content == messages[Len(messages) - 1].content IN
    /\ InvokeStructured(content, out)
    /\ so_input' = content
    /\ IF WeatherResponseValid(out)
       THEN /\ final_response' = WeatherResponse(out)
            /\ node' = RespondEdge
            /\ UNCHANGED error
       ELSE /\ error' = "StructuredOutputError"
            /\ UNCHANGED <<final_response, node>>
    /\ UNCHANGED messages

Respond ==
    /\ node = "respond"
    /\ error = "none"
    /\ IF strategy = 1
       THEN respond_1 /\ UNCHANGED stub
       ELSE \E out \in (IF live \/ Concurrent
                         THEN {ValidArgs, LaxArgs, MissingArgs} ELSE SchemaArgs) :
                respond_2(out)
    /\ UNCHANGED <<strategy, honours, live, nextId, done, parked>>

Next == Agent \/ AgentFails \/ Tools \/ Respond

\* One invocation, logs of up to MaxLog messages.
Spec == Init /\ [][Next]_vars

\* The graph runner always runs the node that is due.
LiveSpec ==
    /\ InitLive
    /\ [][Next]_vars
    /\ WF_vars(Agent) /\ WF_vars(Tools) /\ WF_vars(Respond)

\* The runtime turns to the other invocation: its state comes in, the state of
\* the one that was running is put aside as it is.
Switch ==
    /\ Concurrent
    /\ parked' = Running
    /\ messages' = parked.messages
    /\ final_response' = parked.final_response
    /\ node' = parked.node
    /\ error' = parked.error
    /\ nextId' = parked.nextId
    /\ so_input' = parked.so_input
    /\ done' = parked.done
    /\ UNCHANGED <<strategy, honours, live, stub>>

PairNext == Agent \/ AgentFails \/ ToolCompletes \/ ToolsReturn \/ Respond \/ Switch

\* Two invocations of the compiled graph, their steps interleaved in any order.
PairSpec == PairInit /\ [][PairNext]_vars

\* ---------------------------------------------------- an invocation alone
\* The state of an invocation as graph.invoke holds it.
State(st) ==
    [messages |-> st.messages, final_response |-> st.final_response,
     node |-> st.node, error |-> st.error, nextId |-> st.nextId,
     so_input |-> st.so_input]

\* graph.invoke(input={"messages": [("human", seed)]}) before its first step.
Start(seed) ==
    [messages |-> <<HumanMessage(seed)>>, final_response |-> Absent,
     node |-> "agent", error |-> "none", nextId |-> 1, so_input |-> ""]

\* graph.invoke run on from st with no other invocation about, node after node,
\* as far as the stubs have answers: agent, then tools or respond as the router
\* says, tools back to agent, respond to END.
RECURSIVE Alone(_)
Alone(st) ==
    IF st.error # "none" \/ st.node = "END" THEN st
    ELSE IF st.node = "agent"
    THEN LET said == {p \in stub.model : p.input = st.messages} IN
         IF said = {} THEN st
         ELSE LET response == (CHOOSE p \in said : TRUE).reply
                  after == Append(st.messages, response)
              IN IF response = Raised THEN [st EXCEPT !.error = "BackendError"]
                 ELSE Alone([st EXCEPT
                                !.messages = after,
                                !.node = ConditionalEdge(should_continue(after)),
                                !.nextId = @ + Len(response.tool_calls)])
    ELSE IF st.node = "tools"
    THEN LET calls == ToolCalls(Last(st.messages))
             k == FirstFailure(calls)
         IN IF k = 0
            THEN Alone([st EXCEPT !.messages = @ \o ToolResults(calls),
                                  !.node = ToolsEdge])
            ELSE [st EXCEPT !.error = RunTool(calls[k]).val]
    ELSE IF strategy = 1
    THEN IF ToolCalls(Last(st.messages)) = <<>>
         THEN [st EXCEPT !.error = "IndexError"]
         ELSE LET weather_tool_call == Last(st.messages).tool_calls[1] IN
              IF WeatherResponseValid(weather_tool_call.args)
              THEN [st EXCEPT
                        !.final_response = WeatherResponse(weather_tool_call.args),
                        !.messages = Append(@,
                            ToolMessage("Here is your structured response",
                                        weather_tool_call.id)),
                        !.node = RespondEdge]
              ELSE [st EXCEPT !.error = "StructuredOutputError"]
    ELSE LET content == st.messages[Len(st.messages) - 1].content
             made == {p \in stub.so : p.input = content}
         IN IF made = {} THEN st
            ELSE LET out == (CHOOSE p \in made : TRUE).out IN
                 IF WeatherResponseValid(out)
                 THEN [st EXCEPT !.final_response = WeatherResponse(out),
                                 !.node = RespondEdge, !.so_input = content]
                 ELSE [st EXCEPT !.error = "StructuredOutputError",
                                 !.so_input = content]

\* ------------------------------------------------- reading the log
IsAI(i) == messages[i].type = "ai"

\* The position of the first Assistant message after position i, Len + 1 if none.
NextAI(i) ==
    IF \E k \in (i + 1)..Len(messages) : IsAI(k)
    THEN CHOOSE k \in (i + 1)..Len(messages) :
            IsAI(k) /\ \A j \in (i + 1)..(k - 1) : ~IsAI(j)
    ELSE Len(messages) + 1

\* The positions of the ToolMessages that answer the call with this id.
Answers(id) ==
    {j \in 1..Len(messages) :
        messages[j].type = "tool" /\ messages[j].tool_call_id = id}

\* Every call of every Assistant message has one answer, inside its own turn.
Paired ==
    \A i \in 1..Len(messages) :
        IsAI(i) =>
            \A c \in 1..Len(messages[i].tool_calls) :
                LET A == Answers(messages[i].tool_calls[c].id) IN
                /\ Cardinality(A) = 1
                /\ \A j \in A : i < j /\ j < NextAI(i)

\* The message is an Assistant message whose only call is the schema tool.
SoleSchemaCall(m) ==
    /\ m.type = "ai"
    /\ Len(m.tool_calls) = 1
    /\ m.tool_calls[1].name = SchemaTool

HasCall(m, name) ==
    /\ m.type = "ai"
    /\ \E c \in 1..Len(m.tool_calls) : m.tool_calls[c].name = name

\* Completed AGENT -> TOOLS -> AGENT cycles: every Assistant message but the one
\* whose turn is still under way.
Loops ==
    Cardinality({i \in 1..Len(messages) : IsAI(i)})
        - (IF node = "agent" THEN 0 ELSE 1)

ErrorKinds ==
    {"BackendError", "UnknownToolError", "ToolArgumentError", "ToolExecutionError",
     "StructuredOutputError"}

\* ------------------------------------------------------------------ C1
\* C1: whenever the agent node is about to run, and at END, every tool call of
\* every Assistant message in the log has exactly one ToolMessage with its id,
\* after that message and before the next Assistant message.
C1_Pairing ==
    (node = "END" \/ (node = "agent" /\ error = "none")) => Paired

\* An option-1 run that ended after a mixed turn (schema tool and get_weather in
\* one message, run by the tool node) and a finalizing turn.
C1_Witness ==
    /\ strategy = 1
    /\ node = "END"
    /\ \E i \in 1..Len(messages) :
        /\ HasCall(messages[i], SchemaTool)
        /\ HasCall(messages[i], "get_weather")

\* ------------------------------------------------------------------ C2
\* C2: option 1: when the last message is an Assistant message whose only tool
\* call is WeatherResponse, the graph is at respond, whatever came before.
C2_SoleSchemaRoutesToRespond ==
    (strategy = 1 /\ SoleSchemaCall(Last(messages))) => node = "respond"

\* The sole schema call arrives after two full tool loops.
C2_Witness ==
    /\ strategy = 1
    /\ honours
    /\ SoleSchemaCall(Last(messages))
    /\ node = "respond"
    /\ Loops >= 2
    /\ messages[Len(messages) - 1].type = "tool"

\* ------------------------------------------------------------------ C3
\* C3: option 1: an Assistant message that is not a sole schema call (schema tool
\* with another call, several schema calls, ordinary calls only, no call) is
\* routed to the tool node and never to respond.
C3_OnlySoleSchemaFinalizes ==
    (strategy = 1 /\ Last(messages).type = "ai" /\ ~SoleSchemaCall(Last(messages)))
        => \/ node = "tools"
           \/ node = "agent" /\ Last(messages).tool_calls = <<>>

\* The schema tool is the first of two calls and the turn goes to the tool node.
C3_Witness ==
    /\ strategy = 1
    /\ node = "tools"
    /\ Last(messages).type = "ai"
    /\ Len(Last(messages).tool_calls) = 2
    /\ Last(messages).tool_calls[1].name = SchemaTool
    /\ Last(messages).tool_calls[2].name = "get_weather"

\* ------------------------------------------------------------------ C4
\* C4: option 2: the last Assistant message is routed to respond exactly when it
\* has no tool call and to the tool node exactly when it has one or more.
C4_RouterTwo ==
    (strategy = 2 /\ Last(messages).type = "ai")
        => /\ (Last(messages).tool_calls = <<>>) <=> (node \in {"respond", "END"})
           /\ (Len(Last(messages).tool_calls) >= 1) <=> (node = "tools")

\* A message without tool calls is routed to respond after a tool loop.
C4_Witness ==
    /\ strategy = 2
    /\ node = "respond"
    /\ Last(messages).type = "ai"
    /\ Last(messages).tool_calls = <<>>
    /\ Loops >= 1

\* ------------------------------------------------------------------ C5
\* C5: final_response is never a partial or ill-typed record: it is Absent or a
\* record with the three fields of the schema, each of its type, and a failed
\* respond (StructuredOutputError) leaves it Absent.
C5_AllOrNothing ==
    /\ final_response # Absent => IsRecord(final_response) /\ error = "none"
    /\ error = "StructuredOutputError" => final_response = Absent /\ node = "respond"
    /\ node = "END" => final_response # Absent

\* respond built a record from numeric strs: white space around the number was
\* stripped (a no-break space, a vertical tab, a next line), and an exponent
\* beyond the doubles gave inf.
C5_Witness ==
    /\ strategy = 1
    /\ node = "END"
    /\ IsRecord(final_response)
    /\ messages[Len(messages) - 1].tool_calls[1].args = WideArgs
    /\ final_response["temperature"] = Flt(65)
    /\ final_response["wind_speed"] = Float("inf")

\* ------------------------------------------------------------------ C6
\* C6: final_response is Absent while the graph is at agent or tools, set at END,
\* written only by a respond step, never changed once set, and a step changes
\* the state in no other way than by appending to messages.
C6_WrittenOnce ==
    /\ [](/\ node \in {"agent", "tools"} => final_response = Absent
          /\ node = "END" => final_response # Absent)
    /\ [][/\ final_response # Absent => final_response' = final_response
          /\ final_response' # final_response => node = "respond" /\ node' = RespondEdge
          /\ Len(messages') >= Len(messages)
          /\ SubSeq(messages', 1, Len(messages)) = messages]_vars

\* A finished run: the record is set and the log grew past the seed.
C6_Witness ==
    /\ node = "END"
    /\ final_response # Absent
    /\ Len(messages) >= 4

\* ------------------------------------------------------------------ C7
\* C7: a failing step aborts the invocation at that step: afterwards nothing
\* changes, END is not reached, final_response is not set, and no ToolMessage
\* carries an error back to the model.
C7_NoLocalRecovery ==
    /\ [](/\ error # "none" => node # "END" /\ final_response = Absent
          /\ error = "BackendError" => node = "agent"
          /\ error \in {"UnknownToolError", "ToolArgumentError", "ToolExecutionError"}
                => node = "tools"
          /\ error = "StructuredOutputError" => node = "respond"
          /\ \A j \in 1..Len(messages) :
                messages[j].type = "tool" => messages[j].content \notin ErrorKinds)
    /\ [][error # "none" => UNCHANGED vars]_vars

\* The tool node failed in the second loop of a run.
C7_Witness ==
    /\ error \in {"UnknownToolError", "ToolArgumentError"}
    /\ node = "tools"
    /\ Loops >= 1

\* ------------------------------------------------------------------ C8
\* The only call of the message asks get_weather for a city it does not support.
UnsupportedCityCall(m) ==
    /\ m.type = "ai"
    /\ Len(m.tool_calls) = 1
    /\ m.tool_calls[1].name = "get_weather"
    /\ m.tool_calls[1].args.city \notin SupportedCities

\* C8 as stated: a get_weather call for an unsupported city fails inside the tool
\* (the AssertionError of its else branch), the invocation fails with
\* ToolExecutionError, and no record is produced.
C8_UnsupportedCityFailsInsideTool ==
    \A i \in 1..Len(messages) :
        UnsupportedCityCall(messages[i]) =>
            /\ i = Len(messages)
            /\ node = "tools"
            /\ final_response = Absent
            /\ error \in {"none", "ToolExecutionError"}

\* ------------------------------------------------------------------ C9
\* Every Assistant message so far asks for tools, and for get_weather only.
OnlyOrdinaryTools ==
    \A i \in 1..Len(messages) :
        IsAI(i) =>
            /\ Len(messages[i].tool_calls) >= 1
            /\ \A c \in 1..Len(messages[i].tool_calls) :
                messages[i].tool_calls[c].name = "get_weather"

\* A reply that keeps the loop going: one get_weather call.
OneMoreTool == <<Call("get_weather", [city |-> "paris"])>>

\* The log with that reply appended to it.
WithOneMoreTool == Append(messages, AIMessage("", WithIds(OneMoreTool, nextId)))

\* C9 as stated: option 1, a backend that obeys tool_choice="any", no step of
\* a node failing: the run eventually is at respond with a sole schema call.
C9_EventuallyRespond ==
    <>(\/ strategy # 1
       \/ ~honours
       \/ error \in ErrorKinds
       \/ node = "respond" /\ SoleSchemaCall(Last(messages)))

\* C9 as the code has it: tool_choice="any" is obeyed by a call of any advertised
\* tool, so with the binding obeyed a turn may ask for get_weather alone, on
\* every turn (on every log with room for the turn and its result), and is then
\* routed to the tool node: while the model has asked for get_weather only, the
\* graph is at agent or tools and nothing is final. The graph is at respond
\* exactly when the last message is a sole schema call; once the model has
\* emitted one, and the steps are taken when they are due, respond runs: the
\* run ends at END or with StructuredOutputError.
C9_ForcedBindingOnly ==
    /\ [](ObeysToolChoice(OneMoreTool))
    /\ []((strategy = 1 /\ honours /\ node = "agent" /\ error = "none"
                /\ Len(messages) + 2 <= LiveLog) =>
            /\ OneMoreTool \in Replies
            /\ should_continue(WithOneMoreTool) = "continue")
    /\ []((strategy = 1 /\ honours /\ OnlyOrdinaryTools) =>
            node \in {"agent", "tools"} /\ final_response = Absent)
    /\ []((strategy = 1 /\ honours) =>
            ((node = "respond") <=> SoleSchemaCall(Last(messages))))
    /\ (strategy = 1 /\ honours /\ error = "none" /\ SoleSchemaCall(Last(messages)))
            ~> (node = "END" \/ error = "StructuredOutputError")

\* The binding is obeyed, three cycles of get_weather have run, and the schema
\* tool has not been called.
C9_Witness ==
    /\ strategy = 1
    /\ honours
    /\ live
    /\ OnlyOrdinaryTools
    /\ node = "agent"
    /\ error = "none"
    /\ Loops >= 3
    /\ Last(messages).type = "tool"

\* ------------------------------------------------------------------ C10
\* The log has room for one more turn of one call and its result.
RoomForOneMore == Len(messages) + 2 <= MaxLog

\* C10: the loop has no iteration bound: while the model asks only for ordinary
\* tools the graph is at agent or tools with no final_response; however many
\* cycles have run, the tool node that is due runs, the agent node that is due
\* runs, the model may ask for get_weather once more, and that request is
\* routed to the tool node. Nothing but the length of the logs explored
\* (MaxLog) keeps the model from one more cycle.
C10_NoLoopBound ==
    /\ OnlyOrdinaryTools => node \in {"agent", "tools"} /\ final_response = Absent
    /\ (OnlyOrdinaryTools /\ error = "none" /\ node = "tools") => ENABLED Tools
    /\ (node = "agent" /\ error = "none" /\ RoomForOneMore) =>
        /\ OneMoreTool \in Replies
        /\ ENABLED Agent
        /\ should_continue(WithOneMoreTool) = "continue"

\* As many cycles of ordinary tools as the log has room for have run, and the
\* agent node is due again.
C10_Witness ==
    /\ OnlyOrdinaryTools
    /\ node = "agent"
    /\ error = "none"
    /\ 2 * Loops + 1 = Len(messages)
    /\ Len(messages) + 2 > MaxLog
    /\ Loops >= 3
    /\ Last(messages).type = "tool"

\* ------------------------------------------------------------------ C11
\* C11: the graph is the four-transition machine: a run starts at agent; from
\* agent the next node is tools when the router says continue and respond when it
\* says respond; a tool node that returns leads to agent; a respond node that
\* returns leads to END; nothing happens after END; no other move exists.
C11_FourTransitions ==
    /\ node = "agent"
    /\ [][ /\ node' # node =>
                \/ node = "agent" /\ node' \in {"tools", "respond"}
                \/ node = "tools" /\ node' = "agent"
                \/ node = "respond" /\ node' = "END"
           /\ (node = "agent" /\ error' = "none") =>
                node' = (IF should_continue(messages') = "continue"
                         THEN "tools" ELSE "respond")
           /\ (node = "tools" /\ error' = "none") => node' = "agent"
           /\ (node = "respond" /\ error' = "none") => node' = "END"
           /\ node # "END"
         ]_vars

\* A run that took all four transitions: one tool cycle, then respond, then END.
C11_Witness ==
    /\ node = "END"
    /\ error = "none"
    /\ \E i \in 1..Len(messages) : messages[i].type = "tool" /\ NextAI(i) <= Len(messages)

\* ------------------------------------------------------------------ C12
\* C12: the log is append-only: across every step the log before is a prefix of
\* the log after, and the Human message the run was seeded with stays first.
C12_AppendOnly ==
    /\ [](\E seed \in Seeds : messages[1] = HumanMessage(seed))
    /\ [][ /\ Len(messages') >= Len(messages)
           /\ SubSeq(messages', 1, Len(messages)) = messages
         ]_vars

\* A log that all three nodes have appended to: the seed, a tool turn and its
\* results, the finalizing turn and its acknowledgement.
C12_Witness ==
    /\ strategy = 1
    /\ node = "END"
    /\ Len(messages) >= 5
    /\ messages[1].type = "human"
    /\ messages[3].type = "tool"
    /\ Last(messages).type = "tool"

\* ------------------------------------------------------------------ C17
\* C17: in option 1 a respond step that succeeds appends exactly one message: a
\* ToolMessage, not produced by a tool, whose tool_call_id is the id of the only
\* call of the Assistant message right before it; the tool node is never due for
\* a turn whose only call is the schema tool.
C17_FinalizerAck ==
    /\ []((strategy = 1 /\ SoleSchemaCall(Last(messages))) => node = "respond")
    /\ [][ (strategy = 1 /\ node = "respond" /\ node' = "END") =>
                /\ SoleSchemaCall(Last(messages))
                /\ Len(messages') = Len(messages) + 1
                /\ SubSeq(messages', 1, Len(messages)) = messages
                /\ Last(messages').type = "tool"
                /\ Last(messages').tool_call_id = Last(messages).tool_calls[1].id
                /\ Last(messages').content = "Here is your structured response"
         ]_vars

\* Option 1 has finalized: record set, last message answers the call before it.
C17_Witness ==
    /\ strategy = 1
    /\ node = "END"
    /\ final_response # Absent
    /\ Last(messages).type = "tool"
    /\ SoleSchemaCall(messages[Len(messages) - 1])
    /\ Last(messages).tool_call_id = messages[Len(messages) - 1].tool_calls[1].id

\* ------------------------------------------------------------------ C20
\* C20: in both options an agent step that succeeds appends exactly one message,
\* an Assistant message, and leaves the earlier messages and final_response as
\* they were.
C20_ModelInvokerEffect ==
    [][ (node = "agent" /\ error' = "none") =>
            /\ Len(messages') = Len(messages) + 1
            /\ SubSeq(messages', 1, Len(messages)) = messages
            /\ Last(messages').type = "ai"
            /\ final_response' = final_response
            /\ so_input' = so_input
      ]_vars

\* The agent node has run a second time, after a tool turn, and nothing is final.
C20_Witness ==
    /\ node \in {"tools", "respond"}
    /\ error = "none"
    /\ Last(messages).type = "ai"
    /\ Len(messages) >= 4
    /\ final_response = Absent

\* ------------------------------------------------------------------ C15
\* The position of the latest ToolMessage of the log, 0 if there is none.
LastToolResult ==
    LET T == {j \in 1..Len(messages) : messages[j].type = "tool"} IN
    IF T = {} THEN 0 ELSE CHOOSE j \in T : \A k \in T : k <= j

\* Option 2's respond node has run.
Respond2Ran == strategy = 2 /\ (node = "END" \/ error = "StructuredOutputError")

\* C15: in option 2, whenever respond has run, what it handed to the
\* schema-constrained model is the content of the latest ToolMessage of the log,
\* also when the model answered on its first turn and after a turn of several
\* calls.
C15_FinalizerReadsLastToolResult ==
    Respond2Ran =>
        /\ LastToolResult # 0
        /\ so_input = messages[LastToolResult].content

\* ------------------------------------------------------------------ C16
\* Option 1's respond node has run.
Respond1Ran == strategy = 1 /\ (node = "END" \/ error = "StructuredOutputError")

\* The arguments respond was given: those of the first call of the Assistant
\* message that was last when it ran.
FinalizerArgs ==
    LET i == IF node = "END" THEN Len(messages) - 1 ELSE Len(messages) IN
    messages[i].tool_calls[1].args

LacksField(args) == \E f \in Fields : f \notin DOMAIN args

HasUnknownField(args) == \E k \in DOMAIN args : k \notin Fields

IllTyped(args) ==
    \E f \in Fields \cap DOMAIN args : ~Coercible(args[f], FieldType(f))

\* C16 as stated: in option 1, arguments that lack a field, carry a key that is no
\* field, or carry an ill-typed value make respond fail with no final_response;
\* a record is built only from arguments whose names are exactly the fields.
C16_ExactFieldNamesOnly ==
    Respond1Ran =>
        /\ (LacksField(FinalizerArgs) \/ HasUnknownField(FinalizerArgs)
                \/ IllTyped(FinalizerArgs))
            => (error = "StructuredOutputError" /\ final_response = Absent)
        /\ node = "END" => DOMAIN FinalizerArgs = Fields

\* ------------------------------------------------------------------ C18
\* A step of the invocation that is running (the runtime did not turn to the other).
OwnStep == parked' = parked \/ parked'.inv = parked.inv

\* C18: the calls of a message complete one by one, in any order, and whatever
\* the order: the tool node returns only when all n of them have completed; the
\* step that returns appends exactly n ToolMessages, whose ids are
\* id(c1)..id(cn) in that order and whose contents are the results of c1..cn;
\* nothing is appended while calls are completing; and the agent node is not due
\* before every call of the log is answered.
C18_ResultsInCallOrder ==
    /\ [](node = "agent" => Paired)
    /\ [](node = "tools" =>
            \A order \in Orders(Len(ToolCalls(Last(messages)))) :
                Collect(Completed(ToolCalls(Last(messages)), order))
                    = ToolResults(ToolCalls(Last(messages))))
    /\ [][ (node = "tools" /\ OwnStep) =>
                LET calls == ToolCalls(Last(messages))
                    n == Len(calls)
                IN IF node' = "agent"
                   THEN /\ {done[k].call : k \in 1..Len(done)} = 1..n
                        /\ Len(messages') = Len(messages) + n
                        /\ SubSeq(messages', 1, Len(messages)) = messages
                        /\ \A i \in 1..n :
                            /\ messages'[Len(messages) + i].type = "tool"
                            /\ messages'[Len(messages) + i].tool_call_id = calls[i].id
                            /\ messages'[Len(messages) + i].content
                                    = RunTool(calls[i]).val
                   ELSE messages' = messages
         ]_vars

\* A turn of two calls has been run and the second call completed first: the
\* two results follow the turn in call order, and the agent node is due.
C18_Witness ==
    /\ node = "agent"
    /\ error = "none"
    /\ Len(done) = 2
    /\ done[1].call = 2
    /\ Len(messages) >= 4
    /\ LET i == Len(messages) - 2 IN
        /\ IsAI(i)
        /\ Len(messages[i].tool_calls) = 2
        /\ messages[i + 1].type = "tool"
        /\ messages[i + 1].tool_call_id = messages[i].tool_calls[1].id
        /\ messages[i + 2].type = "tool"
        /\ messages[i + 2].tool_call_id = messages[i].tool_calls[2].id
        /\ messages[i + 1].content # messages[i + 2].content

\* ------------------------------------------------------------------ C19
\* The positions of the calls of the message that name no registered tool.
UnknownCalls(m) ==
    IF m.type = "ai"
    THEN {c \in 1..Len(m.tool_calls) : m.tool_calls[c].name \notin Registry(strategy)}
    ELSE {}

\* An earlier call of the message fails on its own account.
FailsBefore(m, c) == \E j \in 1..(c - 1) : ~RunTool(m.tool_calls[j]).ok

\* C19 as stated: a message with a call of an unregistered tool is the last of
\* the log and the run stays at the tool node: when the node has run, the run
\* has failed with UnknownToolError, nothing was appended and the agent node
\* does not run again.
C19_UnknownToolError ==
    \A i \in 1..Len(messages) :
        UnknownCalls(messages[i]) # {} =>
            /\ i = Len(messages)
            /\ node = "tools"
            /\ error \in {"none", "UnknownToolError"}

\* C19 as the tool node has it: such a message is the last of the log and the run
\* stays at the tool node with nothing appended; the failure is UnknownToolError
\* when the unregistered call is the first call that fails, and the error of the
\* earlier failing call when there is one.
C19_FirstFailingCallAborts ==
    \A i \in 1..Len(messages) :
        UnknownCalls(messages[i]) # {} =>
            /\ i = Len(messages)
            /\ node = "tools"
            /\ error # "none" =>
                LET c == CHOOSE u \in UnknownCalls(messages[i]) :
                            \A v \in UnknownCalls(messages[i]) : u <= v
                IN IF FailsBefore(messages[i], c)
                   THEN error \in {"ToolArgumentError", "ToolExecutionError"}
                   ELSE error = "UnknownToolError"

\* The tool node failed on an unregistered tool that came second in its message,
\* after a call that would have succeeded: nothing was appended for either.
C19_Witness ==
    /\ node = "tools"
    /\ error = "UnknownToolError"
    /\ Len(ToolCalls(Last(messages))) = 2
    /\ UnknownCalls(Last(messages)) = {2}
    /\ RunTool(Last(messages).tool_calls[1]).ok

\* ------------------------------------------------------------------ C13
IsPrefix(a, b) == Len(a) <= Len(b) /\ SubSeq(b, 1, Len(a)) = a

\* The two invocations were started with the same seed text.
SameSeed == Concurrent /\ parked.messages[1] = messages[1]

\* The invocation has returned or raised.
Done(st) == st.node = "END" \/ st.error # "none"

\* The state of invocation i, whichever of the two is running.
Inv(i) == IF Running.inv = i THEN Running ELSE parked

\* C13: two invocations with the same seed, against stubs that answer the same
\* input the same way, whatever the order in which the calls of their tool
\* steps complete and however their steps are interleaved: at any moment the log
\* of one is a prefix of the log of the other, at the same log and node they
\* hold the same state, and once both are over they hold the same log, the same
\* record and the same outcome (in either option).
C13_Deterministic ==
    SameSeed =>
        /\ IsPrefix(messages, parked.messages) \/ IsPrefix(parked.messages, messages)
        /\ (/\ messages = parked.messages
            /\ node = parked.node
            /\ (error = "none") <=> (parked.error = "none"))
            => State(Running) = State(parked)
        /\ (Done(Running) /\ Done(parked))
            => /\ messages = parked.messages
               /\ final_response = parked.final_response
               /\ node = parked.node
               /\ error = parked.error

\* Both invocations of one seed have returned the same record after a turn of
\* two tool calls with different results, which completed in one order for the
\* one invocation and in the other order for the other.
C13_Witness ==
    /\ SameSeed
    /\ node = "END"
    /\ parked.node = "END"
    /\ final_response # Absent
    /\ final_response = parked.final_response
    /\ Len(done) = 2
    /\ Len(parked.done) = 2
    /\ done[1].call # parked.done[1].call
    /\ done[1].msg.content # done[2].msg.content

\* ------------------------------------------------------------------ C14
\* The record option 1 built, or the text option 2 handed over, comes from the
\* invocation's own log, and every ToolMessage of the log answers a call of it.
OwnResult(st) ==
    /\ st.messages[1].type = "human"
    /\ (strategy = 1 /\ st.node = "END")
        => st.final_response =
            WeatherResponse(st.messages[Len(st.messages) - 1].tool_calls[1].args)
    /\ (strategy = 2 /\ (st.node = "END" \/ st.error = "StructuredOutputError"))
        => st.so_input = st.messages[Len(st.messages) - 1].content
    /\ \A j \in 1..Len(st.messages) :
        st.messages[j].type = "tool" =>
            \E i \in 1..(j - 1) :
                /\ st.messages[i].type = "ai"
                /\ \E c \in 1..Len(st.messages[i].tool_calls) :
                    st.messages[i].tool_calls[c].id = st.messages[j].tool_call_id

\* Where the invocation is, is where it gets when it runs alone on its seed
\* against the same stubs: run on alone from its state, and run alone from its
\* seed, it comes to the same state; when it is over, its log, its record and
\* its outcome are those of the run alone.
AsAlone(st) ==
    /\ Alone(State(st)) = Alone(Start(st.messages[1].content))
    /\ Done(st) => State(st) = Alone(Start(st.messages[1].content))

\* C14: two invocations of the compiled graph, their steps and the completions
\* of their tool calls interleaved in any order: a step changes the state of the
\* invocation that takes it and nothing of the other, nor the graph and the
\* bound models they share; each log keeps the invocation's own seed and only
\* grows, it answers its own calls only, and the invocation goes through the
\* states and ends with the result of a run alone.
C14_Isolation ==
    /\ [](Concurrent =>
            \A i \in {1, 2} : OwnResult(Inv(i)) /\ AsAlone(Inv(i)))
    /\ [][ Concurrent =>
            /\ strategy' = strategy
            /\ honours' = honours
            /\ \A i \in {1, 2} :
                /\ Inv(i)' # Inv(i) => (Running.inv = i /\ Inv(3 - i)' = Inv(3 - i))
                /\ Inv(i)'.messages[1] = Inv(i).messages[1]
                /\ IsPrefix(Inv(i).messages, Inv(i)'.messages)
         ]_vars

\* Two invocations with different seeds, run side by side, have both returned
\* a record after a tool step: each holds the log, the record and the outcome
\* of its run alone.
C14_Witness ==
    /\ Concurrent
    /\ ~SameSeed
    /\ node = "END"
    /\ parked.node = "END"
    /\ final_response # Absent
    /\ parked.final_response # Absent
    /\ Len(messages) >= 4
    /\ Len(parked.messages) >= 4
    /\ State(Running) = Alone(Start(messages[1].content))
    /\ State(parked) = Alone(Start(parked.messages[1].content))

\* ------------------------------------------------------------------ C21
\* The last message is a finalizing one: in option 2 an Assistant message with
\* no tool call, in option 1 an Assistant message whose only call is the schema
\* tool with valid arguments.
FinalizingTurn ==
    /\ Last(messages).type = "ai"
    /\ IF strategy = 2
       THEN Len(Last(messages).tool_calls) = 0
       ELSE /\ SoleSchemaCall(Last(messages))
            /\ WeatherResponseValid(Last(messages).tool_calls[1].args)

\* C21: when the graph's steps are taken whenever they are due: once the model
\* has emitted a finalizing message the run reaches END with final_response
\* set, unless a step of a node fails; from that turn on the graph is at respond
\* or END, no agent step and no tool step runs, and only option 1's respond
\* adds a message.
C21_FinalizingTurnTerminates ==
    /\ (FinalizingTurn /\ error = "none")
            ~> ((node = "END" /\ final_response # Absent) \/ error \in ErrorKinds)
    /\ [](FinalizingTurn => node \in {"respond", "END"})
    /\ [][ /\ node \in {"respond", "END"} =>
                (node' \in {"respond", "END"} /\ nextId' = nextId)
           /\ (node \in {"respond", "END"} /\ messages' # messages) =>
                (strategy = 1 /\ node = "respond" /\ node' = "END")
         ]_vars

\* A run that looped through the tool node and then finalized.
C21_Witness ==
    /\ live
    /\ node = "END"
    /\ error = "none"
    /\ final_response # Absent
    /\ nextId > 2

\* ------------------------------------------------------------------ C22
\* C22: option 2's respond step leaves the log as it is: neither the
\* HumanMessage it builds nor the reply of the schema-constrained model is
\* appended; when it succeeds it sets final_response and nothing else of the
\* state, so at END the last message is the Assistant message without tool
\* calls that led to respond.
C22_FinalizerFrame ==
    /\ []((strategy = 2 /\ node = "END") =>
            /\ Last(messages).type = "ai"
            /\ Len(Last(messages).tool_calls) = 0
            /\ IsRecord(final_response))
    /\ [][ (strategy = 2 /\ node = "respond") =>
                /\ messages' = messages
                /\ nextId' = nextId
                /\ node' = "END" => (final_response' # final_response /\ error' = error)
                /\ node' # "END" => final_response' = final_response
         ]_vars

\* Option 2 has finalized after a tool turn: the log still ends with the
\* Assistant message that has no tool call.
C22_Witness ==
    /\ strategy = 2
    /\ node = "END"
    /\ final_response # Absent
    /\ Len(messages) >= 4
    /\ Last(messages).type = "ai"
    /\ messages[Len(messages) - 1].type = "tool"

\* ------------------------------------------------------------------ C23
\* C23: whenever respond is due, what it reads is there: in option 1 the last
\* message is an Assistant message with at least one tool call, and its first
\* call is the schema tool; in option 2 the log has at least two messages, so
\* messages[-2] exists.
C23_FinalizerIndexSafe ==
    node = "respond" =>
        IF strategy = 1
        THEN /\ Last(messages).type = "ai"
             /\ Len(Last(messages).tool_calls) >= 1
             /\ Last(messages).tool_calls[1].name = SchemaTool
             /\ "id" \in DOMAIN Last(messages).tool_calls[1]
             /\ "args" \in DOMAIN Last(messages).tool_calls[1]
        ELSE /\ Len(messages) >= 2
             /\ "content" \in DOMAIN messages[Len(messages) - 1]

\* respond is due in option 2 on the shortest log there is: the seed and the
\* model's first reply.
C23_Witness ==
    /\ strategy = 2
    /\ node = "respond"
    /\ error = "none"
    /\ Len(messages) = 2
    /\ messages[1].type = "human"

\* ------------------------------------------------------------------ C24
\* Every call of the message names a tool advertised to the model.
OnlyAdvertised(m) ==
    \A c \in 1..Len(ToolCalls(m)) : ToolCalls(m)[c].name \in Advertised(strategy)

\* C24: in each option every tool bound to the model is in the tool node's
\* list; a turn that asks for advertised tools only is never refused as an
\* unknown tool, and an unknown-tool failure always comes from a call of a tool
\* that was not advertised; in option 1 this covers WeatherResponse requested
\* next to another tool.
C24_AdvertisedToolsExecutable ==
    /\ Advertised(strategy) \subseteq Registry(strategy)
    /\ (node = "tools" /\ OnlyAdvertised(Last(messages)))
        => /\ error # "UnknownToolError"
           /\ \A c \in 1..Len(ToolCalls(Last(messages))) :
                RunTool(ToolCalls(Last(messages))[c]).val # "UnknownToolError"
    /\ error = "UnknownToolError" => ~OnlyAdvertised(Last(messages))

\* Option 1: a turn with get_weather and WeatherResponse went through the tool
\* node, and the WeatherResponse call has its answer.
C24_Witness ==
    /\ strategy = 1
    /\ node = "agent"
    /\ error = "none"
    /\ \E i \in 1..Len(messages) :
        /\ IsAI(i)
        /\ Len(messages[i].tool_calls) = 2
        /\ HasCall(messages[i], "get_weather")
        /\ \E c \in 1..2 :
            /\ messages[i].tool_calls[c].name = SchemaTool
            /\ Answers(messages[i].tool_calls[c].id) # {}

====
